---- MODULE Spec2Model ----
(***************************************************************************)
(* Model of the air-quality ELT pipeline: src/pipeline/database_manager.py *)
(* (query catalog, session, setup run), src/pipeline/transformation.py     *)
(* (transformation run) and src/pipeline/extraction.py (partition          *)
(* expansion, template rendering, extraction run).                         *)
(*                                                                         *)
(* Text is modelled as a sequence of fragments.  File and directory paths  *)
(* are sequences of single characters, so that endswith, os.path.join and  *)
(* the code-point order used by sorted() are computed, not assumed.        *)
(***************************************************************************)
EXTENDS Integers, Sequences, FiniteSets, TLC

VARIABLES
    mode,                   \* which entry point runs
    pc,                     \* position of the run in its function body
    tree,                   \* file system: existing directory |-> its files
    walk,                   \* what os.walk(parent_dir) yields, in order
    location_ids,           \* keys of the locations JSON, in file order
    start_date,             \* args.start_date, as <<year, month>>
    end_date,               \* args.end_date, as <<year, month>>
    extract_query_template, \* contents of the extraction template file
    work,                   \* query_paths / data_file_paths of the run
    idx,                    \* position of the for loop in the work list
    query,                  \* the query text read or rendered for item idx
    con,                    \* the DuckDB connection: "none", "open", "closed"
    closes,                 \* number of close_database_connection calls
    attempts,               \* execute_query calls so far, with their outcome
    log,                    \* records emitted through logging
    raised,                 \* exception that left the function, or "none"
    db                      \* queries whose effects the database holds

vars == <<mode, pc, tree, walk, location_ids, start_date, end_date,
          extract_query_template, work, idx, query, con, closes, attempts,
          log, raised, db>>

inputs == <<mode, tree, walk, location_ids, start_date, end_date,
            extract_query_template>>

----------------------------------------------------------------------------
(* Bounds of the model *)

\* most files in a modelled directory tree
MaxFiles == 3

\* most location ids in the locations file
MaxIds == 2

\* the modelled start/end months span MaxSpan + 1 consecutive months
MaxSpan == 3

\* longest work list of a modelled run
MaxWork == 3

----------------------------------------------------------------------------
(* Text *)

Chars == {".", "/", "a", "b", "c", "d", "l", "n", "q", "s", "t", "x"}

\* ord(c): the code point Python compares characters by
ord(c) ==
    CASE c = "." -> 46 [] c = "/" -> 47
      [] c = "a" -> 97 [] c = "b" -> 98 [] c = "c" -> 99 [] c = "d" -> 100
      [] c = "l" -> 108 [] c = "n" -> 110 [] c = "q" -> 113 [] c = "s" -> 115
      [] c = "t" -> 116 [] c = "x" -> 120

\* a < b on str: the first differing character decides, a proper prefix is less
RECURSIVE str_lt(_, _)
str_lt(a, b) ==
    IF b = <<>> THEN FALSE
    ELSE IF a = <<>> THEN TRUE
    ELSE IF Head(a) = Head(b) THEN str_lt(Tail(a), Tail(b))
    ELSE ord(Head(a)) < ord(Head(b))

\* s.endswith(suffix)
endswith(s, suffix) ==
    /\ Len(s) >= Len(suffix)
    /\ SubSeq(s, Len(s) - Len(suffix) + 1, Len(s)) = suffix

\* os.path.join(root, file) for a relative file name
os_path_join(root, file) ==
    IF root = <<>> THEN file
    ELSE IF root[Len(root)] = "/" THEN root \o file
    ELSE root \o <<"/">> \o file

\* insertion of x into a sorted list, after the elements not greater than it
RECURSIVE insert_sorted(_, _)
insert_sorted(x, s) ==
    IF s = <<>> THEN <<x>>
    ELSE IF str_lt(x, Head(s)) THEN <<x>> \o s
    ELSE <<Head(s)>> \o insert_sorted(x, Tail(s))

\* sorted(xs): ascending, stable
RECURSIVE sorted(_)
sorted(xs) ==
    IF xs = <<>> THEN <<>>
    ELSE insert_sorted(xs[Len(xs)], sorted(SubSeq(xs, 1, Len(xs) - 1)))

----------------------------------------------------------------------------
(* File system seen by os.walk *)

SqlSuffix == <<".", "s", "q", "l">>

\* the directory handed to collect_query_paths
ParentDir == <<"q">>

DirPaths ==
    { <<"q">>,
      <<"q", "/", "a">>,
      <<"q", "/", "a", "/", "t">>,
      <<"q", "/", "s">> }

FileNames ==
    { <<"a", ".", "s", "q", "l">>,
      <<"b", ".", "s", "q", "l">>,
      <<"c", ".", "s", "q", "l">>,
      <<"s", "q", "l", ".", "x">> }

\* directory names are one character long
parent(p) == SubSeq(p, 1, Len(p) - 2)

\* sets of directories that can exist together: none (ParentDir is missing),
\* or ParentDir and descendants, each with its parent
DirSets ==
    { D \in SUBSET DirPaths :
        \A p \in D : p = ParentDir \/ parent(p) \in D }

RECURSIVE SumFiles(_, _)
SumFiles(t, D) ==
    IF D = {} THEN 0
    ELSE LET p == CHOOSE x \in D : TRUE
         IN  Cardinality(t[p]) + SumFiles(t, D \ {p})

FileCount(t) == SumFiles(t, DOMAIN t)

Trees ==
    { t \in UNION { [D -> SUBSET FileNames] : D \in DirSets } :
        FileCount(t) <= MaxFiles }

\* every order in which a directory listing can enumerate a set
Orders(S) ==
    { s \in [1..Cardinality(S) -> S] :
        \A i, j \in 1..Cardinality(S) : i # j => s[i] # s[j] }

children(t, top) == { p \in DOMAIN t : p # ParentDir /\ parent(p) = top }

\* os.walk(top), top-down, onerror=None: a directory that cannot be listed
\* yields nothing; otherwise top first, then each subdirectory's walk, the
\* subdirectories and the files of each directory in listing order
RECURSIVE os_walk(_, _), walk_each(_, _)
os_walk(t, top) ==
    IF top \notin DOMAIN t THEN { <<>> }
    ELSE { <<[root |-> top, files |-> fs]>> \o rest :
             fs \in Orders(t[top]),
             rest \in UNION { walk_each(t, ds) : ds \in Orders(children(t, top)) } }
walk_each(t, ds) ==
    IF ds = <<>> THEN { <<>> }
    ELSE { a \o b : a \in os_walk(t, Head(ds)), b \in walk_each(t, Tail(ds)) }

----------------------------------------------------------------------------
(* Query Catalog *)

\* the inner for/if: the .sql files of one yielded directory, joined to it
RECURSIVE sql_files_of(_, _)
sql_files_of(root, files) ==
    IF files = <<>> THEN <<>>
    ELSE (IF endswith(Head(files), SqlSuffix)
          THEN <<os_path_join(root, Head(files))>>
          ELSE <<>>) \o sql_files_of(root, Tail(files))

\* the outer for: sql_files after the whole walk
RECURSIVE scan(_)
scan(w) ==
    IF w = <<>> THEN <<>>
    ELSE sql_files_of(Head(w).root, Head(w).files) \o scan(Tail(w))

\* collect_query_paths returning sql_files without sorting it
collect_unsorted(w) == scan(w)

\* collect_query_paths(parent_dir), given what os.walk(parent_dir) yields
collect_query_paths(w) == sorted(scan(w))

----------------------------------------------------------------------------
(* Template Renderer: a template is a sequence of tokens, literal text or a *)
(* {{placeholder}}; a rendered text is a sequence of fragments              *)

Text(s) == [kind |-> "text", value |-> s]
Var(n) == [kind |-> "var", name |-> n]

\* jinja2 Template(t).render(**bindings): a placeholder without a binding is
\* jinja2's default Undefined, which renders as the empty string
RECURSIVE render(_, _)
render(t, bindings) ==
    IF t = <<>> THEN <<>>
    ELSE (IF Head(t).kind = "text" THEN <<Head(t).value>>
          ELSE IF Head(t).name \in DOMAIN bindings THEN bindings[Head(t).name]
          ELSE <<>>) \o render(Tail(t), bindings)

\* the placeholders a template references
placeholders(t) == { t[i].name : i \in { j \in 1..Len(t) : t[j].kind = "var" } }

Digit == <<"0", "1", "2", "3", "4", "5", "6", "7", "8", "9">>

\* str(n) for n >= 0
RECURSIVE str(_)
str(n) == IF n < 10 THEN <<Digit[n + 1]>> ELSE str(n \div 10) \o <<Digit[(n % 10) + 1]>>

\* s.zfill(width)
RECURSIVE zfill(_, _)
zfill(s, width) == IF Len(s) >= width THEN s ELSE zfill(<<"0">> \o s, width)

----------------------------------------------------------------------------
(* Partition Expander *)

\* datetime.MAXYEAR: the last year a datetime represents
MAXYEAR == 9999

\* data_file_path_template of extract_data
data_file_path_template ==
    << Text("locationid="), Var("location_id"), Text("/year="), Var("year"),
       Text("/month="), Var("month"), Text("/*") >>

\* the loop condition written index_date < end_date
date_lt(a, b) == a[1] < b[1] \/ (a[1] = b[1] /\ a[2] < b[2])

\* index_date <= end_date on datetimes of day 1, midnight
date_le(a, b) == a[1] < b[1] \/ (a[1] = b[1] /\ a[2] <= b[2])

\* index_date + relativedelta(months=1), before the result is range-checked
add_month(d) == IF d[2] + 1 > 12 THEN <<d[1] + 1, d[2] + 1 - 12>> ELSE <<d[1], d[2] + 1>>

\* the rendering of one partition path
render_path(t, location_id, d) ==
    render(t, [n \in {"location_id", "year", "month"} |->
                 CASE n = "location_id" -> <<location_id>>
                   [] n = "year" -> str(d[1])
                   [] n = "month" -> zfill(str(d[2]), 2)])

\* the while loop of one location: the paths appended, and the ValueError
\* datetime raises when the next month is past MAXYEAR
RECURSIVE while_months(_, _, _, _, _)
while_months(t, location_id, index_date, end, acc) ==
    IF ~date_le(index_date, end) THEN [raised |-> "none", paths |-> acc]
    ELSE LET acc2 == Append(acc, render_path(t, location_id, index_date))
             next == add_month(index_date)
         IN  IF next[1] > MAXYEAR THEN [raised |-> "ValueError", paths |-> acc2]
             ELSE while_months(t, location_id, next, end, acc2)

\* the for loop over the locations
RECURSIVE for_locations(_, _, _, _, _)
for_locations(t, ids, start, end, acc) ==
    IF ids = <<>> THEN [raised |-> "none", paths |-> acc]
    ELSE LET r == while_months(t, Head(ids), start, end, acc)
         IN  IF r.raised # "none" THEN r
             ELSE for_locations(t, Tail(ids), start, end, r.paths)

\* compile_data_file_paths: what it returns (paths) unless it raises
compile_data_file_paths(t, ids, start, end) == for_locations(t, ids, start, end, <<>>)

\* args.source_base_path
SourceBasePath == <<"s3://archive">>

\* compile_data_file_query
compile_data_file_query(base_path, data_file_path, t) ==
    render(t, [n \in {"data_file_path"} |-> base_path \o <<"/">> \o data_file_path])

----------------------------------------------------------------------------
(* Inputs *)

LocationIds == {"A", "B", "C"}

\* the k-th month counted from year 0, as <<year, month>>
MonthNo(k) == <<k \div 12, (k % 12) + 1>>

\* start and end months: MaxSpan + 1 consecutive months from November 2023,
\* and the last two months datetime represents
Dates ==
    { MonthNo(2023 * 12 + 10 + k) : k \in 0..MaxSpan }
      \cup { <<MAXYEAR, 11>>, <<MAXYEAR, 12>> }

\* the start/end pairs offered: every pair of Dates that is empty or spans at
\* most MaxSpan + 1 months
MonthIndex(d) == d[1] * 12 + d[2] - 1

DateRanges ==
    { r \in Dates \X Dates : MonthIndex(r[2]) - MonthIndex(r[1]) <= MaxSpan }

IdLists ==
    { s \in UNION { [1..n -> LocationIds] : n \in 0..MaxIds } :
        \A i, j \in 1..Len(s) : i # j => s[i] # s[j] }

\* extraction templates: the placeholder alone, and one that also references
\* a placeholder extract_data never binds
Templates ==
    { << Text("INSERT INTO raw SELECT * FROM '"), Var("data_file_path"), Text("'") >>,
      << Text("INSERT INTO "), Var("table"), Text(" SELECT * FROM '"),
         Var("data_file_path"), Text("'") >> }

\* what con.execute(query) can do: return, raise duckdb.IOException, or raise
\* another duckdb.Error
Outcomes == {"ok", "IOException", "Error"}

NoDate == <<0, 0>>

----------------------------------------------------------------------------
(* Runs: setup_database, transform_data, extract_data *)

Info(msg, arg) == [level |-> "INFO", msg |-> msg, arg |-> arg]
Warning(msg, arg) == [level |-> "WARNING", msg |-> msg, arg |-> arg]

\* a handler for IOException around every run's execute_query
caught_everywhere(m, exc) == exc = "IOException"

\* extract_data without its except clause
caught_nowhere(m, exc) == FALSE

\* extract_data with a bare except
caught_any(m, exc) == m = "extract"

\* the except clause around execute_query: extract_data catches IOException,
\* setup_database and transform_data have no handler
caught(m, exc) == m = "extract" /\ exc = "IOException"

\* a loop that stays on the item it has just run
same_item(i) == i

\* the for statement moves to the next item of the list
next_item(i) == i + 1

\* the statement that follows collect_query_paths / connect_to_database
after_collect(m) == IF m = "setup" THEN "connect" ELSE "loop"
after_connect(m) == IF m = "transform" THEN "collect" ELSE "loop"

Fresh ==
    /\ work = <<>>
    /\ idx = 1
    /\ query = <<>>
    /\ con = "none"
    /\ closes = 0
    /\ attempts = <<>>
    /\ log = <<>>
    /\ raised = "none"
    /\ db = <<>>

NoCatalogInput == tree = <<>> /\ walk = <<>>

NoExtractInput ==
    /\ location_ids = <<>>
    /\ start_date = NoDate
    /\ end_date = NoDate
    /\ extract_query_template = <<>>

InitCatalogRun ==
    /\ mode \in {"setup", "transform"}
    /\ pc = (IF mode = "setup" THEN "collect" ELSE "connect")
    /\ tree \in Trees
    /\ walk \in os_walk(tree, ParentDir)
    /\ NoExtractInput
    /\ Fresh

InitExtractRun ==
    /\ mode = "extract"
    /\ pc = "prepare"
    /\ NoCatalogInput
    /\ location_ids \in IdLists
    /\ \E r \in DateRanges : start_date = r[1] /\ end_date = r[2]
    /\ extract_query_template \in Templates
    /\ Len(compile_data_file_paths(data_file_path_template, location_ids,
                                   start_date, end_date).paths) <= MaxWork
    /\ Fresh

Init == InitCatalogRun \/ InitExtractRun

\* query_paths = collect_query_paths(dir)
Collect ==
    /\ pc = "collect"
    /\ work' = collect_query_paths(walk)
    /\ log' = Append(log, Info("Found sql scripts at location", ParentDir))
    /\ pc' = after_collect(mode)
    /\ UNCHANGED <<inputs, idx, query, con, closes, attempts, raised, db>>

\* steps 1 to 3 of extract_data: read the ids, compile the paths, read the
\* template; a ValueError of compile_data_file_paths leaves extract_data
Prepare ==
    /\ pc = "prepare"
    /\ LET r == compile_data_file_paths(data_file_path_template, location_ids,
                                        start_date, end_date)
       IN  IF r.raised = "none"
           THEN work' = r.paths /\ pc' = "connect" /\ raised' = raised
           ELSE work' = work /\ pc' = "failed" /\ raised' = r.raised
    /\ UNCHANGED <<inputs, idx, query, con, closes, attempts, log, db>>

\* read_location_ids or read_query of the template raises: the file is
\* missing, unreadable or malformed
PrepareFail ==
    /\ pc = "prepare"
    /\ pc' = "failed"
    /\ raised' = "OSError"
    /\ UNCHANGED <<inputs, work, idx, query, con, closes, attempts, log, db>>

\* con = connect_to_database(path)
Connect ==
    /\ pc = "connect"
    /\ con' = "open"
    /\ log' = Append(log, Info("Connecting to database at", <<>>))
    /\ pc' = after_connect(mode)
    /\ UNCHANGED <<inputs, work, idx, query, closes, attempts, raised, db>>

\* ddb.connect raises: no connection exists
ConnectFail ==
    /\ pc = "connect"
    /\ log' = Append(log, Info("Connecting to database at", <<>>))
    /\ pc' = "failed"
    /\ raised' = "IOException"
    /\ UNCHANGED <<inputs, work, idx, query, con, closes, attempts, db>>

\* setup_database, transform_data: query = read_query(query_path)
ReadQuery ==
    /\ pc = "loop"
    /\ mode \in {"setup", "transform"}
    /\ idx <= Len(work)
    /\ query' = <<[file |-> work[idx]]>>
    /\ pc' = "execute"
    /\ UNCHANGED <<inputs, work, idx, con, closes, attempts, log, raised, db>>

\* open(path) raises inside read_query
ReadQueryFail ==
    /\ pc = "loop"
    /\ mode \in {"setup", "transform"}
    /\ idx <= Len(work)
    /\ pc' = "failed"
    /\ raised' = "OSError"
    /\ UNCHANGED <<inputs, work, idx, query, con, closes, attempts, log, db>>

\* extract_data: log the path, query = compile_data_file_query(...)
RenderQuery ==
    /\ pc = "loop"
    /\ mode = "extract"
    /\ idx <= Len(work)
    /\ log' = Append(log, Info("Extracting data from", work[idx]))
    /\ query' = compile_data_file_query(SourceBasePath, work[idx],
                                        extract_query_template)
    /\ pc' = "execute"
    /\ UNCHANGED <<inputs, work, idx, con, closes, attempts, raised, db>>

\* execute_query(con, query) is entered: the query is with the database
Submit ==
    /\ pc = "execute"
    /\ attempts' = Append(attempts,
                          [item |-> idx, query |-> query, outcome |-> "running"])
    /\ pc' = "running"
    /\ UNCHANGED <<inputs, work, idx, query, con, closes, log, raised, db>>

Settle(outcome) ==
    [attempts EXCEPT ![Len(attempts)].outcome = outcome]

\* con.execute returns: the effects are in the database, the success is logged
ExecuteOk ==
    /\ pc = "running"
    /\ attempts' = Settle("ok")
    /\ db' = Append(db, query)
    /\ log' = Append(log, Info(IF mode = "extract" THEN "Extracted data from"
                                                   ELSE "Executed query from",
                               work[idx]))
    /\ idx' = next_item(idx)
    /\ pc' = "loop"
    /\ UNCHANGED <<inputs, work, query, con, closes, raised>>

\* a run that undoes what it has executed when a query raises
rolled_back(d) == <<>>

\* the database after con.execute raised: the runs open no transaction and no
\* handler undoes anything, so what earlier calls committed stays
after_raise(d) == d

\* con.execute raises: a caught exception is logged and the loop goes on, any
\* other leaves the function at once
ExecuteRaise ==
    /\ pc = "running"
    /\ \E exc \in Outcomes \ {"ok"} :
         /\ attempts' = Settle(exc)
         /\ IF caught(mode, exc)
            THEN /\ log' = Append(log, Warning("Could not find data from", work[idx]))
                 /\ idx' = next_item(idx)
                 /\ pc' = "loop"
                 /\ raised' = raised
            ELSE /\ log' = log
                 /\ idx' = idx
                 /\ pc' = "failed"
                 /\ raised' = exc
    /\ db' = after_raise(db)
    /\ UNCHANGED <<inputs, work, query, con, closes>>

\* the list is exhausted: close_database_connection(con)
Close ==
    /\ pc = "loop"
    /\ idx > Len(work)
    /\ con' = "closed"
    /\ closes' = closes + 1
    /\ log' = Append(log, Info("Closing database connection", <<>>))
    /\ pc' = "done"
    /\ UNCHANGED <<inputs, work, idx, query, attempts, raised, db>>

Next ==
    \/ Collect
    \/ Prepare
    \/ PrepareFail
    \/ Connect
    \/ ConnectFail
    \/ ReadQuery
    \/ ReadQueryFail
    \/ RenderQuery
    \/ Submit
    \/ ExecuteOk
    \/ ExecuteRaise
    \/ Close

Spec == Init /\ [][Next]_vars

----------------------------------------------------------------------------
(* Partition Expander called on its own *)

InitExpand ==
    /\ mode = "expand"
    /\ pc = "call"
    /\ NoCatalogInput
    /\ location_ids \in IdLists
    /\ \E r \in DateRanges : start_date = r[1] /\ end_date = r[2]
    /\ extract_query_template = <<>>
    /\ Fresh

\* data_file_paths = compile_data_file_paths(template, ids, start, end)
CompilePaths ==
    /\ pc = "call"
    /\ LET r == compile_data_file_paths(data_file_path_template, location_ids,
                                        start_date, end_date)
       IN  IF r.raised = "none"
           THEN work' = r.paths /\ pc' = "returned" /\ raised' = raised
           ELSE work' = work /\ pc' = "failed" /\ raised' = r.raised
    /\ UNCHANGED <<inputs, idx, query, con, closes, attempts, log, db>>

SpecExpand == InitExpand /\ [][CompilePaths]_vars

----------------------------------------------------------------------------
(* Properties *)

Run == mode \in {"setup", "transform", "extract"}
Over == pc \in {"done", "failed"}
Failed(i) == attempts[i].outcome \notin {"ok", "running"}
Last == Len(attempts)

\* C1: in every run, once the run is over, each session that was opened has
\* been closed exactly once by close_database_connection, whether the run
\* completed or an error aborted it.
C1_ClosedOnEveryExit ==
    (Run /\ Over) =>
        \/ con = "none" /\ closes = 0
        \/ con = "closed" /\ closes = 1

\* C2: fail-fast (setup_database, transform_data): if executing item k raises
\* any error, k is the last item ever handed to execute_query, nothing of a
\* later item is in the database, and the run has failed with that error.
C2_FailFast ==
    mode \in {"setup", "transform"} =>
        \A i \in 1..Len(attempts) :
            Failed(i) =>
                /\ i = Last
                /\ \A j \in 1..Len(attempts) : attempts[j].item <= attempts[i].item
                /\ Len(db) < attempts[i].item
                /\ pc = "failed"
                /\ raised = attempts[i].outcome

\* C2 witness: item 2 of 3 raised in a fail-fast run, after item 1 ran.
C2_Witness ==
    /\ mode \in {"setup", "transform"}
    /\ Len(work) = 3
    /\ Len(attempts) = 2
    /\ attempts[1].outcome = "ok"
    /\ attempts[2].outcome = "Error"
    /\ pc = "failed"

\* the items of the work list whose execution raised exc
ItemsWith(outcome) ==
    { attempts[i].item : i \in { j \in 1..Len(attempts) : attempts[j].outcome = outcome } }

HasWarning(path) ==
    \E n \in 1..Len(log) : log[n] = Warning("Could not find data from", path)

\* C3: skip-and-log (extract_data): every item that raised the
\* partition-not-found IOException has a warning naming its partition; no
\* such failure ends the run (a failed run has an item that raised another
\* error, and a run that is not over can take a step); and a completed run
\* attempted every item of the list, in order, holds the effects of exactly
\* the items that did not raise, in order, and reports no error.
C3_SkipAndLog ==
    mode = "extract" =>
        /\ \A k \in ItemsWith("IOException") : HasWarning(work[k])
        /\ (pc = "failed" /\ attempts # <<>>) => ItemsWith("Error") # {}
        /\ ~Over => ENABLED Next
        /\ pc = "done" =>
              /\ raised = "none"
              /\ Len(attempts) = Len(work)
              /\ \A i \in 1..Len(attempts) : attempts[i].item = i
              /\ ItemsWith("ok") \cup ItemsWith("IOException") = 1..Len(work)
              /\ Len(db) = Cardinality(ItemsWith("ok"))
              /\ \A n \in 1..Len(db) :
                    \E k \in ItemsWith("ok") :
                        /\ db[n] = attempts[k].query
                        /\ Cardinality({ j \in ItemsWith("ok") : j <= k }) = n

\* C3 witness: a list of 3 partitions, the second missing: the run completed
\* with items 1 and 3 executed and item 2 skipped.
C3_Witness ==
    /\ mode = "extract"
    /\ pc = "done"
    /\ Len(work) = 3
    /\ ItemsWith("ok") = {1, 3}
    /\ ItemsWith("IOException") = {2}
    /\ HasWarning(work[2])

C5_ProvenanceReported ==
    (Run /\ pc = "failed" /\ attempts # <<>> /\ Failed(Last)) =>
        \E n \in 1..Len(log) : log[n].arg = work[attempts[Last].item]

\* collect_query_paths has returned in this run
Collected ==
    /\ mode \in {"setup", "transform"}
    /\ \E n \in 1..Len(log) : log[n].msg = "Found sql scripts at location"

\* the .sql files of the tree, by full path
SqlPathsIn(t) ==
    UNION { { os_path_join(d, f) : f \in { g \in t[d] : endswith(g, SqlSuffix) } } :
            d \in DOMAIN t }

\* C6: collect_query_paths never returns for a root directory that does not
\* exist (it fails instead), and returns the empty list for an existing
\* directory tree without .sql files.
C6_MissingRootIsFatal ==
    mode \in {"setup", "transform"} =>
        IF ParentDir \notin DOMAIN tree
        THEN ~Collected
        ELSE (Collected /\ SqlPathsIn(tree) = {}) => work = <<>>

\* C7: when the extraction template references a placeholder that
\* extract_data binds no value to, no query rendered from it is ever handed
\* to execute_query.
C7_UnboundPlaceholderIsFatal ==
    (mode = "extract" /\ ~(placeholders(extract_query_template) \subseteq {"data_file_path"}))
        => attempts = <<>>

\* the text of one partition path, digit by digit
PathText(id, d) ==
    << "locationid=", id, "/year=",
       Digit[(d[1] \div 1000) + 1], Digit[((d[1] \div 100) % 10) + 1],
       Digit[((d[1] \div 10) % 10) + 1], Digit[(d[1] % 10) + 1],
       "/month=", Digit[(d[2] \div 10) + 1], Digit[(d[2] % 10) + 1], "/*" >>

\* inclusive month count from start to end, zero when start is after end
MonthCount(s, e) ==
    IF MonthIndex(e) < MonthIndex(s) THEN 0 ELSE MonthIndex(e) - MonthIndex(s) + 1

\* for each id in input order, one path per month from start to end
ExpectedPaths(ids, s, e) ==
    [ n \in 1..(Len(ids) * MonthCount(s, e)) |->
        PathText(ids[((n - 1) \div MonthCount(s, e)) + 1],
                 MonthNo(MonthIndex(s) + ((n - 1) % MonthCount(s, e)))) ]

Called == mode = "expand" /\ pc # "call"

C9_CatalogSortedExact ==
    Collected =>
        /\ { work[i] : i \in 1..Len(work) } = SqlPathsIn(tree)
        /\ Len(work) = Cardinality(SqlPathsIn(tree))
        /\ \A i \in 1..Len(work) : \A j \in 1..Len(work) :
              i < j => str_lt(work[i], work[j])

\* C9 witness: a walk that yields b.sql before a.sql, and c.sql in a
\* subdirectory, was catalogued as [a.sql, b.sql, s/c.sql].
C9_Witness ==
    /\ Collected
    /\ Len(walk) = 2
    /\ walk[1].files = << <<"b", ".", "s", "q", "l">>, <<"a", ".", "s", "q", "l">> >>
    /\ work = << <<"q", "/", "a", ".", "s", "q", "l">>,
                 <<"q", "/", "b", ".", "s", "q", "l">>,
                 <<"q", "/", "s", "/", "c", ".", "s", "q", "l">> >>

\* the query made from item i of the work list
QueryOf(i) ==
    IF mode = "extract"
    THEN compile_data_file_query(SourceBasePath, work[i], extract_query_template)
    ELSE <<[file |-> work[i]]>>

\* C10: in every run the n-th call of execute_query is for the n-th item of
\* the work list (so the items are submitted in list order, none twice, also
\* after a failure or a skip), and a call is made only when every earlier
\* call has finished.
C10_InOrderAtMostOnce ==
    Run =>
        /\ Len(attempts) <= Len(work)
        /\ \A i \in 1..Len(attempts) :
              /\ attempts[i].item = i
              /\ attempts[i].query = QueryOf(i)
              /\ (i < Last => attempts[i].outcome # "running")
        /\ (attempts # <<>> /\ attempts[Last].outcome = "running") <=> pc = "running"

\* C10 witness: a run of 3 items in which item 2 was skipped and item 3 is
\* being executed.
C10_Witness ==
    /\ Run
    /\ Len(attempts) = 3
    /\ attempts[1].outcome = "ok"
    /\ attempts[2].outcome = "IOException"
    /\ attempts[3].outcome = "running"

\* the queries of the calls that returned, in call order
IsOk(a) == a.outcome = "ok"
OkQueries ==
    [ n \in 1..Len(SelectSeq(attempts, IsOk)) |-> SelectSeq(attempts, IsOk)[n].query ]

====
